---- MODULE Spec2Model ----
(***************************************************************************)
(* Text stimuli of featurex/pliers: TextStim, DynamicTextStim and          *)
(* ComplexTextStim (src/featurex/stimuli/text.py), with the Event and      *)
(* Timeline of featurex.core that ComplexTextStim.extract folds into.      *)
(*                                                                         *)
(* Floats and None are written as strings ("None", "NaN", "1.0", ...), so  *)
(* that a value of any kind can be compared with any other.  A Python      *)
(* object is a record of its attributes: an attribute the constructor      *)
(* never sets is a field the record does not have, and reading it raises   *)
(* AttributeError.                                                         *)
(***************************************************************************)
EXTENDS Integers, Sequences, FiniteSets, TLC

VARIABLES
    pc,               \* position of the running call
    error,            \* the exception the call raised, "None" if none
    elements,         \* ComplexTextStim.elements
    extractors,       \* extract: the extractors argument
    merge_events,     \* extract: the merge_events argument
    ei,               \* extract: index of the current extractor
    ej,               \* extract: index of the current element
    timeline,         \* Timeline.events
    trace,            \* history: the applications <<extractor, element>> of
                      \* ext.apply, in order; element 0 is the collection
    folded,           \* history: the events handed to add_event, in order
    before,           \* history: Timeline.events before the last add_event
    added,            \* history: the event and merge flag of the last add_event
    unit,             \* from_text: unit, a string as its characters
    tokenizer,        \* from_text: tokenizer
    nltk,             \* from_text: what the nltk branch runs into
    tokens,           \* from_text: tokens
    consulted,        \* history: what from_text called, read or raised
    file,             \* _from_file: the file's header and rows
    columns,          \* _from_file: columns
    default_duration, \* _from_file: default_duration
    fs,               \* the names open() finds in the working directory
    data,             \* _from_file: the DataFrame read_csv returned
    ri,               \* _from_file: index of the current row
    shards,           \* the Timelines of the shards still to be merged
    origin            \* history: the shards' Timelines as first produced

vars == <<pc, error, elements, extractors, merge_events, ei, ej, timeline,
          trace, folded, before, added, unit, tokenizer, nltk,
          tokens, consulted, file, columns, default_duration, fs, data, ri,
          shards, origin>>

extractVars == <<extractors, merge_events, ei, ej, trace, folded>>
timelineVars == <<before, added>>
textVars == <<unit, tokenizer, nltk, tokens, consulted>>
fileVars == <<file, columns, default_duration, fs, data, ri>>
shardVars == <<shards, origin>>

(***************************************************************************)
(* Bounds of the model.                                                    *)
(***************************************************************************)
MaxElems == 2
MaxExtractors == 2
MaxEvents == 3
MaxRows == 2
MaxTokens == 2
NumShards == 3

None == "None"
Texts == {"a", "b"}
Onsets == {"1.0", "2.0"}
Names == {"x", "y"}
Vals == {"1", "2"}

RECURSIVE SeqsUpTo(_, _)
SeqsUpTo(S, n) ==
    IF n = 0 THEN {<<>>}
    ELSE LET shorter == SeqsUpTo(S, n - 1)
         IN shorter \cup {Append(s, e) : s \in {t \in shorter : Len(t) = n - 1}, e \in S}

IsPrefix(s, t) == Len(s) <= Len(t) /\ \A k \in 1..Len(s) : s[k] = t[k]

SetMin(S) == CHOOSE m \in S : \A n \in S : m <= n

(***************************************************************************)
(* Python attribute access: obj.attr.                                      *)
(***************************************************************************)
HasAttr(obj, attr) == attr \in DOMAIN obj

(***************************************************************************)
(* open(filename).read(): files holds the names open() finds; the text of  *)
(* a file is not the name it was opened by.                                *)
(***************************************************************************)
CanOpen(filename, files) == filename \in files

ReadFile(filename) == "<file contents>"

(***************************************************************************)
(* TextStim(filename, text): with a filename the text is read from that    *)
(* file (IOError when CanOpen fails); only self.text is set.               *)
(***************************************************************************)
TextStim(filename, t) ==
    [text |-> IF filename # None THEN ReadFile(filename) ELSE t]

(***************************************************************************)
(* DynamicTextStim(text, order, onset, duration).                          *)
(***************************************************************************)
DynamicTextStim(t, order, onset, duration) ==
    [text |-> t, order |-> order, onset |-> onset, duration |-> duration]

(***************************************************************************)
(* featurex.core.Event: an onset and a mapping from extractor name to      *)
(* value, held as a set of <<name, value>> pairs with one pair per name.   *)
(***************************************************************************)
Event(onset) == [onset |-> onset, values |-> {}]

Keys(values) == {p[1] : p \in values}

\* dict.update: the pairs of new replace those of old with the same name.
ValuesKeepExisting(old, new) == old \cup {p \in new : p[1] \notin Keys(old)}
ValuesReplaceAll(old, new) == new
UpdateValues(old, new) == {p \in old : p[1] \notin Keys(new)} \cup new

\* Event.add_value(value): value carries its extractor's name.
add_value(event, value) ==
    [event EXCEPT !.values = UpdateValues(@, {<<value.name, value.val>>})]

(***************************************************************************)
(* featurex.core.Timeline.add_event(event, merge).                         *)
(***************************************************************************)
add_event_replace_values(events, event, merge) ==
    LET same == {k \in 1..Len(events) : events[k].onset = event.onset}
    IN IF ~merge \/ same = {}
       THEN Append(events, event)
       ELSE [events EXCEPT ![SetMin(same)].values = ValuesReplaceAll(@, event.values)]
add_event_existing_wins(events, event, merge) ==
    LET same == {k \in 1..Len(events) : events[k].onset = event.onset}
    IN IF ~merge \/ same = {}
       THEN Append(events, event)
       ELSE [events EXCEPT ![SetMin(same)].values = ValuesKeepExisting(@, event.values)]
add_event(events, event, merge) ==
    LET same == {k \in 1..Len(events) : events[k].onset = event.onset}
    IN IF ~merge \/ same = {}
       THEN Append(events, event)
       ELSE [events EXCEPT ![SetMin(same)].values = UpdateValues(@, event.values)]

RECURSIVE add_events(_, _, _)
add_events(events, evs, merge) ==
    IF evs = <<>> THEN events
    ELSE add_events(add_event(events, Head(evs), merge), Tail(evs), merge)


(***************************************************************************)
(* Values the variables of the calls that are not running hold.            *)
(***************************************************************************)
IdleExtract ==
    /\ extractors = <<>> /\ merge_events = TRUE /\ ei = 0 /\ ej = 0
    /\ trace = <<>> /\ folded = <<>>
IdleTimeline == before = <<>> /\ added = <<>>
IdleText ==
    /\ unit = <<>> /\ tokenizer = None /\ nltk = None
    /\ tokens = <<>> /\ consulted = {}
IdleFile ==
    /\ file = <<>> /\ columns = <<>> /\ default_duration = None /\ fs = {}
    /\ data = <<>> /\ ri = 0
IdleShards == shards = <<>> /\ origin = <<>>

(***************************************************************************)
(* The collections extract is run on.  from_text gives plain TextStims;    *)
(* _from_file on a file with an onset column gives DynamicTextStims whose  *)
(* order is the row index.                                                 *)
(***************************************************************************)
PlainCollection(ts) == [k \in 1..Len(ts) |-> TextStim(None, ts[k])]

DynamicCollection(rows) ==
    [k \in 1..Len(rows) |-> DynamicTextStim(rows[k][1], k - 1, rows[k][2], None)]

Collections ==
    {PlainCollection(ts) : ts \in SeqsUpTo(Texts, MaxElems)}
    \cup {DynamicCollection(rows) : rows \in SeqsUpTo(Texts \X Onsets, MaxElems)}

(***************************************************************************)
(* An extractor: its name, the name of its target class, and, for a        *)
(* collection-level extractor, the Events its apply(collection) returns.   *)
(***************************************************************************)
ClassName == "ComplexTextStim"

CollectionEvent(onset) == [onset |-> onset, values |-> {<<"z", "1">>}]

CollectionResults ==
    { <<>>,
      <<CollectionEvent(None)>>,
      <<CollectionEvent("1.0"), CollectionEvent(None)>>,
      <<CollectionEvent("2.0"), CollectionEvent("2.0")>> }

Extractors ==
    {[name |-> n, target |-> "TextStim", result |-> <<>>] : n \in Names}
    \cup {[name |-> "z", target |-> ClassName, result |-> r] : r \in CollectionResults}

\* ext.apply(elem) for an element-level extractor: a value under ext's name.
ApplyElement(ext, elem) == [name |-> ext.name, val |-> elem.text]

\* ext.apply(self) for a collection-level extractor.
ApplyCollection(ext) == ext.result

(***************************************************************************)
(* ComplexTextStim.extract, line 97: the branch on the target's name.      *)
(***************************************************************************)
IsCollectionLevelNever(ext) == FALSE
IsCollectionLevel(ext) == ext.target = ClassName

(***************************************************************************)
(* ComplexTextStim.extract, lines 98-100: fold the returned events.        *)
(***************************************************************************)
FoldCollection(events, ext, merge) == add_events(events, ApplyCollection(ext), merge)

(***************************************************************************)
(* ComplexTextStim.extract, lines 103-105: the event of one element.       *)
(***************************************************************************)
ElementEvent(ext, elem) == add_value(Event(elem.onset), ApplyElement(ext, elem))

FoldElementAlwaysMerge(events, ext, elem, merge) ==
    add_event(events, ElementEvent(ext, elem), TRUE)
FoldElementNeverMerge(events, ext, elem, merge) ==
    add_event(events, ElementEvent(ext, elem), FALSE)
FoldElement(events, ext, elem, merge) ==
    add_event(events, ElementEvent(ext, elem), merge)

(***************************************************************************)
(* ComplexTextStim.extract(extractors, merge_events), one loop iteration   *)
(* per step.                                                               *)
(***************************************************************************)
ExtractInit ==
    /\ pc = "extract" /\ error = None
    /\ elements \in Collections
    /\ extractors \in SeqsUpTo(Extractors, MaxExtractors)
    /\ merge_events \in BOOLEAN
    /\ ei = 1 /\ ej = 1
    /\ timeline = <<>> /\ trace = <<>> /\ folded = <<>>
    /\ IdleTimeline /\ IdleText /\ IdleFile /\ IdleShards

\* lines 97-100
ExtractCollectionLevel ==
    /\ pc = "extract" /\ ei <= Len(extractors)
    /\ IsCollectionLevel(extractors[ei])
    /\ trace' = Append(trace, <<ei, 0>>)
    /\ timeline' = FoldCollection(timeline, extractors[ei], merge_events)
    /\ folded' = folded \o ApplyCollection(extractors[ei])
    /\ ei' = ei + 1
    /\ UNCHANGED <<pc, error, elements, extractors, merge_events, ej>>
    /\ UNCHANGED <<timelineVars, textVars, fileVars, shardVars>>

\* lines 102-105, elem.onset is there
ExtractElementLevel ==
    /\ pc = "extract" /\ ei <= Len(extractors)
    /\ ~IsCollectionLevel(extractors[ei])
    /\ ej <= Len(elements)
    /\ HasAttr(elements[ej], "onset")
    /\ trace' = Append(trace, <<ei, ej>>)
    /\ timeline' = FoldElement(timeline, extractors[ei], elements[ej], merge_events)
    /\ folded' = Append(folded, ElementEvent(extractors[ei], elements[ej]))
    /\ ej' = ej + 1
    /\ UNCHANGED <<pc, error, elements, extractors, merge_events, ei>>
    /\ UNCHANGED <<timelineVars, textVars, fileVars, shardVars>>

\* line 103, elem.onset is not there: Event(onset=elem.onset) raises
ExtractElementRaises ==
    /\ pc = "extract" /\ ei <= Len(extractors)
    /\ ~IsCollectionLevel(extractors[ei])
    /\ ej <= Len(elements)
    /\ ~HasAttr(elements[ej], "onset")
    /\ pc' = "raised" /\ error' = "AttributeError"
    /\ UNCHANGED <<elements, timeline, extractVars>>
    /\ UNCHANGED <<timelineVars, textVars, fileVars, shardVars>>

\* line 102: the elements are exhausted
ExtractElementsDone ==
    /\ pc = "extract" /\ ei <= Len(extractors)
    /\ ~IsCollectionLevel(extractors[ei])
    /\ ej > Len(elements)
    /\ ei' = ei + 1 /\ ej' = 1
    /\ UNCHANGED <<pc, error, elements, timeline, extractors, merge_events, trace, folded>>
    /\ UNCHANGED <<timelineVars, textVars, fileVars, shardVars>>

\* line 106
ExtractReturn ==
    /\ pc = "extract" /\ ei > Len(extractors)
    /\ pc' = "done"
    /\ UNCHANGED <<error, elements, timeline, extractVars>>
    /\ UNCHANGED <<timelineVars, textVars, fileVars, shardVars>>

Next ==
    \/ ExtractCollectionLevel
    \/ ExtractElementLevel
    \/ ExtractElementRaises
    \/ ExtractElementsDone
    \/ ExtractReturn

Spec == ExtractInit /\ [][Next]_vars


(***************************************************************************)
(* The applications extract is to make: for each extractor in turn, one    *)
(* on the collection (element 0) or one on each element in order.          *)
(***************************************************************************)
RECURSIVE ExpectedTraceFrom(_, _, _)
ExpectedTraceFrom(exts, n, k) ==
    IF k > Len(exts) THEN <<>>
    ELSE (IF exts[k].target = ClassName
          THEN << <<k, 0>> >>
          ELSE [m \in 1..n |-> <<k, m>>])
         \o ExpectedTraceFrom(exts, n, k + 1)

ExpectedTrace == ExpectedTraceFrom(extractors, Len(elements), 1)

RECURSIVE ExpectedCountFrom(_, _, _)
ExpectedCountFrom(exts, n, k) ==
    IF k > Len(exts) THEN 0
    ELSE (IF exts[k].target = ClassName THEN Len(exts[k].result) ELSE n)
         + ExpectedCountFrom(exts, n, k + 1)

OnsetsDistinct(events) ==
    \A a, b \in 1..Len(events) : a # b => events[a].onset # events[b].onset

Untimed == \A k \in 1..Len(elements) : ~HasAttr(elements[k], "onset")

\* C1: with merge_events=True the Timeline extract builds never holds two
\* Events with the same onset, None counting as an onset equal only to None.
C1_MergeOnsetsDistinct == merge_events => OnsetsDistinct(timeline)

C1_Witness ==
    /\ pc = "done" /\ merge_events
    /\ Len(timeline) >= 2 /\ Len(folded) > Len(timeline)
    /\ \E k \in 1..Len(timeline) : timeline[k].onset = None

\* C3: the applications made so far are always an initial part of the
\* expected ordered trace (so none is repeated or out of order), and when
\* extract returns they are the whole of it.
C3_ExactOrderedTrace ==
    /\ IsPrefix(trace, ExpectedTrace)
    /\ \A a, b \in 1..Len(trace) : a # b => trace[a] # trace[b]
    /\ pc = "done" => trace = ExpectedTrace

C3_Witness ==
    /\ pc = "done" /\ Len(extractors) = 2 /\ Len(elements) = 2
    /\ trace = << <<1, 1>>, <<1, 2>>, <<2, 0>> >>

\* C4: with merge_events=False every add_event appends: the Timeline is the
\* sequence of folded events, and when extract returns it holds N events per
\* element-level extractor plus the events each collection-level one returned.
C4_NoMergeAppendsAll ==
    ~merge_events =>
        /\ timeline = folded
        /\ pc = "done" => Len(timeline) = ExpectedCountFrom(extractors, Len(elements), 1)

C4_Witness ==
    /\ pc = "done" /\ ~merge_events /\ Len(timeline) >= 3
    /\ ~OnsetsDistinct(timeline)
    /\ \E k \in 1..Len(extractors) : extractors[k].target = ClassName
    /\ \E k \in 1..Len(extractors) : extractors[k].target # ClassName

\* C10: on a collection of plain TextStims an element-level extraction
\* completes without error and folds one None-onset Event per element, merged
\* into a single Event with merge_events=True and kept apart without.
C10_UntimedExtractionWorks ==
    (Untimed /\ \A k \in 1..Len(extractors) : extractors[k].target # ClassName) =>
        /\ error = None
        /\ pc = "done" =>
            /\ Len(folded) = Len(elements) * Len(extractors)
            /\ \A k \in 1..Len(folded) : folded[k].onset = None
            /\ merge_events => Len(timeline) = (IF folded = <<>> THEN 0 ELSE 1)
            /\ ~merge_events => Len(timeline) = Len(folded)


(***************************************************************************)
(* A Timeline driven directly: add_event(event, merge) with any event and  *)
(* either flag, while the Timeline holds fewer than MaxEvents events.      *)
(***************************************************************************)
EventValues ==
    { {<<"x", "1">>}, {<<"x", "2">>}, {<<"y", "1">>}, {<<"x", "2">>, <<"y", "2">>} }

TimelineEvents == {[onset |-> o, values |-> v] : o \in {None, "2.0"}, v \in EventValues}

TimelineInit ==
    /\ pc = "timeline" /\ error = None /\ elements = <<>>
    /\ timeline = <<>> /\ before = <<>> /\ added = <<>>
    /\ IdleExtract /\ IdleText /\ IdleFile /\ IdleShards

AddEvent ==
    /\ pc = "timeline" /\ Len(timeline) < MaxEvents
    /\ \E ev \in TimelineEvents, m \in BOOLEAN :
        /\ before' = timeline
        /\ added' = [event |-> ev, merge |-> m]
        /\ timeline' = add_event(timeline, ev, m)
    /\ UNCHANGED <<pc, error, elements, extractVars, textVars, fileVars, shardVars>>

NextTimeline == AddEvent

SpecTimeline == TimelineInit /\ [][NextTimeline]_vars

SameOnset(events, event) == {k \in 1..Len(events) : events[k].onset = event.onset}

\* C2: add_event(event, merge=true) with an existing Event at that onset
\* keeps the number of events, gives that Event the union of the two value
\* mappings with the incoming value on every colliding key, and leaves every
\* other Event as it was; with no Event at that onset it appends the event.
C2_MergeUnionIncomingWins ==
    (added # <<>> /\ added.merge) =>
        LET same == SameOnset(before, added.event)
            new == added.event.values
        IN IF same = {}
           THEN timeline = Append(before, added.event)
           ELSE LET k == SetMin(same)
                IN /\ Len(timeline) = Len(before)
                   /\ timeline[k].onset = before[k].onset
                   /\ \A n \in Names, v \in Vals :
                        <<n, v>> \in timeline[k].values <=>
                            \/ <<n, v>> \in new
                            \/ <<n, v>> \in before[k].values /\ n \notin Keys(new)
                   /\ Keys(timeline[k].values) \subseteq Names
                   /\ \A m \in 1..Len(before) : m # k => timeline[m] = before[m]

C2_Witness ==
    /\ added # <<>> /\ added.merge
    /\ before = << [onset |-> None, values |-> {<<"y", "1">>}],
                   [onset |-> "2.0", values |-> {<<"x", "1">>}] >>
    /\ added.event = [onset |-> "2.0", values |-> {<<"x", "2">>, <<"y", "2">>}]
    /\ timeline = << [onset |-> None, values |-> {<<"y", "1">>}],
                     [onset |-> "2.0", values |-> {<<"x", "2">>, <<"y", "2">>}] >>


(***************************************************************************)
(* Sharded extraction: each shard folds its own events, all under the      *)
(* shard's own value key, into a Timeline of its own with merge=true; the  *)
(* caller then merges the shards' Timelines pairwise, in any order and     *)
(* grouping, by folding the events of one into the other with merge=true.  *)
(***************************************************************************)
ShardKey(s) == <<"x", "y", "z", "w", "v">>[s]

ShardEvents(s) ==
    {[onset |-> o, values |-> {<<ShardKey(s), "1">>}] : o \in {None, "1.0"}}

ShardTimelines(s) ==
    {add_events(<<>>, evs, TRUE) : evs \in SeqsUpTo(ShardEvents(s), MaxElems)}

ShardsInit ==
    /\ pc = "shards" /\ error = None /\ elements = <<>> /\ timeline = <<>>
    /\ shards \in [1..NumShards -> UNION {ShardTimelines(s) : s \in 1..NumShards}]
    /\ \A s \in 1..NumShards : shards[s] \in ShardTimelines(s)
    /\ origin = shards
    /\ IdleExtract /\ IdleTimeline /\ IdleText /\ IdleFile

\* The Timelines left once those at positions a and b are taken out.
Others(tls, a, b) ==
    LET keep == {k \in 1..Len(tls) : k # a /\ k # b}
        RECURSIVE pick(_)
        pick(k) == IF k > Len(tls) THEN <<>>
                   ELSE (IF k \in keep THEN <<tls[k]>> ELSE <<>>) \o pick(k + 1)
    IN pick(1)

MergeShards ==
    /\ pc = "shards" /\ Len(shards) >= 2
    /\ \E a, b \in 1..Len(shards) :
        /\ a # b
        /\ shards' = Append(Others(shards, a, b), add_events(shards[a], shards[b], TRUE))
    /\ UNCHANGED <<pc, error, elements, timeline, origin>>
    /\ UNCHANGED <<extractVars, timelineVars, textVars, fileVars>>

ShardsDone ==
    /\ pc = "shards" /\ Len(shards) = 1
    /\ pc' = "done" /\ timeline' = shards[1]
    /\ UNCHANGED <<error, elements, shardVars>>
    /\ UNCHANGED <<extractVars, timelineVars, textVars, fileVars>>

NextShards == MergeShards \/ ShardsDone

SpecShards == ShardsInit /\ [][NextShards]_vars

\* The onsets of a Timeline, each with the value pairs attached to it.
OnsetMap(events) == {<<events[k].onset, events[k].values>> : k \in 1..Len(events)}

\* Every onset of every shard, with all the value pairs any shard has there.
UnionOfShards ==
    LET all == UNION {{origin[s][k] : k \in 1..Len(origin[s])} : s \in 1..Len(origin)}
    IN {<<o, UNION {e.values : e \in {f \in all : f.onset = o}}>> : o \in {e.onset : e \in all}}

\* C9: whatever the order and grouping in which shards with disjoint value
\* keys are merged, the merged Timeline has one Event per onset of any shard,
\* holding the union of the value pairs the shards have at that onset.
C9_ShardMergeOrderIndependent ==
    pc = "done" =>
        /\ OnsetsDistinct(timeline)
        /\ OnsetMap(timeline) = UnionOfShards

C9_Witness ==
    /\ pc = "done" /\ Len(timeline) = 2
    /\ \A k \in 1..2 : Cardinality(timeline[k].values) = NumShards
    /\ origin[1][1].onset # origin[2][1].onset


(***************************************************************************)
(* ComplexTextStim.from_text(text, unit, tokenizer, language).  What       *)
(* re.findall, tokenizer.tokenize and nltk return for the text is any      *)
(* sequence of up to MaxTokens tokens.  nltk is what the nltk branch runs  *)
(* into: nothing ("ok"), or an exception at the import, at the fetch of    *)
(* the punkt data, or in the tokenizer itself.                             *)
(***************************************************************************)
Word == <<"w", "o", "r", "d">>
Sent == <<"s", "e", "n", "t">>

Units ==
    { Word, Sent,
      <<"s", "e", "n", "t", "e", "n", "c", "e">>,
      <<"w", "o", "r", "d", "s">>,
      <<"s", "e", "n">>,
      <<"p", "a", "r", "a">> }

Tokenizers == {None, "pattern", "object"}

NltkOutcomes == {"ok", "import fails", "download fails", "tokenize fails"}

TokenSeqs == SeqsUpTo(Texts, MaxTokens)

\* isinstance(tokenizer, string_types)
IsPattern(tok) == tok = "pattern"

\* unit == 'word' / unit.startswith('sent'), lines 138 and 140
StartsWith(u, prefix) == IsPrefix(prefix, u)
ValidUnit(u) == u = Word \/ StartsWith(u, Sent)

\* lines 133-137: the unit is looked at only if nltk and its data are there
ReachesUnitCheck(n) == n \in {"ok", "tokenize fails"}

\* lines 132-144: whether the try block raises
TryRaises(n, u) == n # "ok" \/ ~ValidUnit(u)

\* line 146: the handler falls back to the regex only for unit == 'word'
FallbackAllowedAlways(u) == TRUE
FallbackAllowed(u) == u = Word

\* what the try block and its handler touch
TryConsults(n, u) ==
    {"nltk", "unit"}
    \cup (IF ReachesUnitCheck(n) /\ ~ValidUnit(u) THEN {"raise ValueError"} ELSE {})

FromTextInit ==
    /\ pc = "from_text" /\ error = None /\ elements = <<>> /\ timeline = <<>>
    /\ unit \in Units /\ tokenizer \in Tokenizers /\ nltk \in NltkOutcomes
    /\ tokens = <<>> /\ consulted = {}
    /\ IdleExtract /\ IdleTimeline /\ IdleFile /\ IdleShards

\* lines 126-128
FromTextPattern ==
    /\ pc = "from_text" /\ tokenizer # None /\ IsPattern(tokenizer)
    /\ tokens' \in TokenSeqs
    /\ consulted' = {"re.findall"}
    /\ pc' = "append"
    /\ UNCHANGED <<error, elements, timeline, unit, tokenizer, nltk>>
    /\ UNCHANGED <<extractVars, timelineVars, fileVars, shardVars>>

\* lines 129-130
FromTextTokenizerObject ==
    /\ pc = "from_text" /\ tokenizer # None /\ ~IsPattern(tokenizer)
    /\ tokens' \in TokenSeqs
    /\ consulted' = {"tokenizer.tokenize"}
    /\ pc' = "append"
    /\ UNCHANGED <<error, elements, timeline, unit, tokenizer, nltk>>
    /\ UNCHANGED <<extractVars, timelineVars, fileVars, shardVars>>

\* lines 132-141: the try block runs through
FromTextNltk ==
    /\ pc = "from_text" /\ tokenizer = None
    /\ ~TryRaises(nltk, unit)
    /\ tokens' \in TokenSeqs
    /\ consulted' = {"nltk", "unit"}
    /\ pc' = "append"
    /\ UNCHANGED <<error, elements, timeline, unit, tokenizer, nltk>>
    /\ UNCHANGED <<extractVars, timelineVars, fileVars, shardVars>>

\* lines 145, 146, 150-152: the bare except catches whatever the try block
\* raised, and unit is 'word'
FromTextFallback ==
    /\ pc = "from_text" /\ tokenizer = None
    /\ TryRaises(nltk, unit)
    /\ FallbackAllowed(unit)
    /\ tokens' \in TokenSeqs
    /\ consulted' = TryConsults(nltk, unit) \cup {"fallback"}
    /\ pc' = "append"
    /\ UNCHANGED <<error, elements, timeline, unit, tokenizer, nltk>>
    /\ UNCHANGED <<extractVars, timelineVars, fileVars, shardVars>>

\* lines 145-149: the bare except catches whatever the try block raised,
\* the ValueError of line 143 included, and unit is not 'word'
FromTextImportError ==
    /\ pc = "from_text" /\ tokenizer = None
    /\ TryRaises(nltk, unit)
    /\ ~FallbackAllowed(unit)
    /\ consulted' = TryConsults(nltk, unit)
    /\ pc' = "raised" /\ error' = "ImportError"
    /\ UNCHANGED <<elements, timeline, unit, tokenizer, nltk, tokens>>
    /\ UNCHANGED <<extractVars, timelineVars, fileVars, shardVars>>

\* lines 155-156
FromTextAppend ==
    /\ pc = "append" /\ Len(elements) < Len(tokens)
    /\ elements' = Append(elements, TextStim(None, tokens[Len(elements) + 1]))
    /\ UNCHANGED <<pc, error, timeline>>
    /\ UNCHANGED <<extractVars, timelineVars, textVars, fileVars, shardVars>>

\* line 157
FromTextReturn ==
    /\ pc = "append" /\ Len(elements) = Len(tokens)
    /\ pc' = "done"
    /\ UNCHANGED <<error, elements, timeline>>
    /\ UNCHANGED <<extractVars, timelineVars, textVars, fileVars, shardVars>>

NextFromText ==
    \/ FromTextPattern
    \/ FromTextTokenizerObject
    \/ FromTextNltk
    \/ FromTextFallback
    \/ FromTextImportError
    \/ FromTextAppend
    \/ FromTextReturn

SpecFromText == FromTextInit /\ [][NextFromText]_vars

\* C5: with no tokenizer, a unit that is neither 'word' nor starts with
\* 'sent' makes from_text fail with ValueError and build no collection.
C5_InvalidUnitValueError ==
    (pc # "from_text" /\ tokenizer = None /\ ~ValidUnit(unit)) =>
        /\ pc = "raised" /\ error = "ValueError"
        /\ elements = <<>>

\* C8: with no tokenizer and nltk failing in any way, from_text goes on with
\* the regex fallback exactly when unit is 'word' and fails with ImportError
\* for every other unit; with a tokenizer passed, nltk, the fallback and the
\* unit are never consulted.
C8_FallbackOnlyForWord ==
    pc # "from_text" =>
        /\ (tokenizer = None /\ nltk # "ok") =>
            /\ (error = None /\ "fallback" \in consulted) <=> unit = Word
            /\ unit # Word => (pc = "raised" /\ error = "ImportError" /\ elements = <<>>)
            /\ unit = Word => (pc # "raised" /\ consulted \cap {"re.findall", "tokenizer.tokenize"} = {})
        /\ tokenizer # None =>
            /\ error = None /\ pc # "raised"
            /\ consulted \cap {"nltk", "fallback", "unit", "raise ValueError"} = {}

C8_Witness ==
    /\ pc = "done" /\ tokenizer = None /\ nltk = "download fails" /\ unit = Word
    /\ "fallback" \in consulted /\ Len(elements) = MaxTokens


(***************************************************************************)
(* ComplexTextStim(filename, columns, default_duration): _from_file.       *)
(*                                                                         *)
(* A file is its lines of tab-separated cells: an optional header line     *)
(* naming the columns of the layout, then the data rows.  An empty cell is *)
(* "".  Without a header the columns argument names the file's columns, or *)
(* is the default 'tod' naming more columns than the file has.  No data    *)
(* cell is one of the reserved column names.                               *)
(***************************************************************************)
Layouts ==
    { <<"text">>, <<"text", "onset">>, <<"onset", "text">>,
      <<"text", "onset", "duration">> }

Cells(kind) ==
    CASE kind = "text" -> Texts
      [] kind = "onset" -> Onsets
      [] kind = "duration" -> {"", "3.0"}

RowsOf(layout) ==
    {r \in [1..Len(layout) -> Texts \cup Onsets \cup {"", "3.0"}] :
        \A k \in 1..Len(layout) : r[k] \in Cells(layout[k])}

Files ==
    UNION {{[header |-> h, layout |-> l, rows |-> rs] :
                h \in BOOLEAN, rs \in SeqsUpTo(RowsOf(l), MaxRows)} : l \in Layouts}

Lines(f) == IF f.header THEN <<f.layout>> \o f.rows ELSE f.rows

\* line 69
tod_names(x) ==
    CASE x = "t" -> "text" [] x = "o" -> "onset" [] x = "d" -> "duration"

Letter(kind) ==
    CASE kind = "text" -> "t" [] kind = "onset" -> "o" [] kind = "duration" -> "d"

DefaultColumns == <<"t", "o", "d">>

ColumnsFor(f) ==
    LET exact == [k \in 1..Len(f.layout) |-> Letter(f.layout[k])]
    IN IF f.header \/ IsPrefix(exact, DefaultColumns)
       THEN {exact, DefaultColumns}
       ELSE {exact}

\* line 71: the cells of the first line
first_row(f) == Lines(f)[1]

\* line 72: the first line names a reserved column
HasHeaderRow(f) ==
    {first_row(f)[k] : k \in 1..Len(first_row(f))} \cap {"text", "onset", "duration"} # {}

\* line 75
col_names(cols) == [k \in 1..Len(cols) |-> tod_names(cols[k])]

\* pandas: an empty cell, or one the line does not reach, is NaN
Parsed(line, k) == IF k > Len(line) \/ line[k] = "" THEN "NaN" ELSE line[k]

Series(names, line) ==
    [n \in {names[k] : k \in 1..Len(names)} |->
        Parsed(line, CHOOSE k \in 1..Len(names) : names[k] = n)]

\* line 77: pd.read_csv(filename, sep='\t', names=col_names); with names=None
\* the first line is the header
read_csv(f, cols) ==
    IF HasHeaderRow(f)
    THEN [k \in 1..(Len(Lines(f)) - 1) |-> Series(first_row(f), Lines(f)[k + 1])]
    ELSE [k \in 1..Len(Lines(f)) |-> Series(col_names(cols), Lines(f)[k])]

\* lines 83-85: r.get('duration', None), the default only for None
ResolveDuration(r, default) ==
    LET duration == IF "duration" \in DOMAIN r THEN r["duration"] ELSE None
    IN IF duration = None THEN default ELSE duration

FromFileInit ==
    /\ pc = "from_file" /\ error = None /\ elements = <<>> /\ timeline = <<>>
    /\ file \in Files
    /\ Lines(file) # <<>>
    /\ columns \in ColumnsFor(file)
    /\ default_duration \in {None, "1.5"}
    /\ fs \in {{}, {"a"}}
    /\ data = <<>> /\ ri = 0
    /\ IdleExtract /\ IdleTimeline /\ IdleText /\ IdleShards

\* lines 69-77
FromFileRead ==
    /\ pc = "from_file"
    /\ data' = read_csv(file, columns)
    /\ ri' = 0
    /\ pc' = "rows"
    /\ UNCHANGED <<error, elements, timeline, file, columns, default_duration, fs>>
    /\ UNCHANGED <<extractVars, timelineVars, textVars, shardVars>>

\* lines 79, 82-87: the row has an onset
FromFileDynamicRow ==
    /\ pc = "rows" /\ ri < Len(data)
    /\ "onset" \in DOMAIN data[ri + 1]
    /\ LET r == data[ri + 1]
       IN elements' = Append(elements,
            DynamicTextStim(r["text"], ri, r["onset"], ResolveDuration(r, default_duration)))
    /\ ri' = ri + 1
    /\ UNCHANGED <<pc, error, timeline, file, columns, default_duration, fs, data>>
    /\ UNCHANGED <<extractVars, timelineVars, textVars, shardVars>>

\* lines 79-81, 87: the row has no onset; TextStim(r['text']) passes the
\* row's text as filename, and a file of that name is there
FromFilePlainRow ==
    /\ pc = "rows" /\ ri < Len(data)
    /\ "onset" \notin DOMAIN data[ri + 1]
    /\ CanOpen(data[ri + 1]["text"], fs)
    /\ elements' = Append(elements, TextStim(data[ri + 1]["text"], None))
    /\ ri' = ri + 1
    /\ UNCHANGED <<pc, error, timeline, file, columns, default_duration, fs, data>>
    /\ UNCHANGED <<extractVars, timelineVars, textVars, shardVars>>

\* lines 79-81: the row has no onset, and no file has the row's text as
\* its name: open() raises
FromFilePlainRowRaises ==
    /\ pc = "rows" /\ ri < Len(data)
    /\ "onset" \notin DOMAIN data[ri + 1]
    /\ ~CanOpen(data[ri + 1]["text"], fs)
    /\ pc' = "raised" /\ error' = "IOError"
    /\ UNCHANGED <<elements, timeline, fileVars>>
    /\ UNCHANGED <<extractVars, timelineVars, textVars, shardVars>>

\* line 79: the rows are exhausted
FromFileDone ==
    /\ pc = "rows" /\ ri = Len(data)
    /\ pc' = "done"
    /\ UNCHANGED <<error, elements, timeline, fileVars>>
    /\ UNCHANGED <<extractVars, timelineVars, textVars, shardVars>>

NextFromFile ==
    \/ FromFileRead
    \/ FromFileDynamicRow
    \/ FromFilePlainRow
    \/ FromFilePlainRowRaises
    \/ FromFileDone

SpecFromFile == FromFileInit /\ [][NextFromFile]_vars

\* The cell of data row k in the column of that kind, "" without the column.
RowField(f, k, kind) ==
    LET at == {c \in 1..Len(f.layout) : f.layout[c] = kind}
    IN IF at = {} THEN "" ELSE f.rows[k][CHOOSE c \in at : TRUE]

\* C6: the element built from a data row with an onset has the row's
\* duration when the row has one and default_duration otherwise, be the
\* duration cell empty or the column missing (None when there is no
\* default; NaN is taken for None there).
C6_DurationResolved ==
    pc \in {"rows", "done"} =>
        \A k \in 1..Len(elements) :
            RowField(file, k, "onset") # "" =>
                LET cell == RowField(file, k, "duration")
                    want == IF cell # "" THEN cell ELSE default_duration
                IN \/ elements[k].duration = want
                   \/ want = None /\ elements[k].duration = "NaN"

\* C7: the collection built from a file of N data rows has N elements,
\* element i comes from data row i, and a timed element's order is i
\* (counting from 0), with a header row or with the columns string.
C7_RowOrderPreserved ==
    pc \in {"done", "raised"} =>
        /\ pc = "done"
        /\ Len(elements) = Len(file.rows)
        /\ \A k \in 1..Len(elements) :
            /\ elements[k].text = RowField(file, k, "text")
            /\ HasAttr(elements[k], "order") => elements[k].order = k - 1

====
